---- MODULE Spec2Model ----
(***************************************************************************)
(* Model of scripts/test-single.py: the evaluation harness that walks the  *)
(* plot directories, loads the "FI" ground truth of each plot, runs the    *)
(* external tool on every ALS/ULS/TLS capture and appends one row per      *)
(* reconciled (plot, capture) pairing to test.tsv.                         *)
(*                                                                         *)
(* Text is a sequence of one-character strings, so that Python's substring *)
(* test (`in`), endswith and the tab-separated layout of a row are         *)
(* computed, not assumed.  A JSON value is a tagged record: Str(text) or   *)
(* Num(n).  JSON object keys are atoms (TLA+ strings).                     *)
(***************************************************************************)
EXTENDS Integers, Sequences, FiniteSets, TLC

VARIABLES walk, pc, d, f, target, p, out, counter, printed, calls, written, error

vars == <<walk, pc, d, f, target, p, out, counter, printed, calls, written, error>>

\* Number of directories os.walk yields in one run of the model.
MaxDirs == 2

-----------------------------------------------------------------------------
(* Text and values *)

TAB == "\t"
NL == "\n"

Str(s) == [kind |-> "str", s |-> s]
Num(n) == [kind |-> "num", n |-> n]

\* Python: sub in s   (substring test on str)
Contains(sub, s) ==
    \E i \in 0..(Len(s) - Len(sub)) :
        \A j \in 1..Len(sub) : s[i + j] = sub[j]

\* Python: s.endswith(suf)
EndsWith(s, suf) ==
    /\ Len(suf) <= Len(s)
    /\ \A j \in 1..Len(suf) : s[Len(s) - Len(suf) + j] = suf[j]

Digit(k) == <<"0", "1", "2", "3", "4", "5", "6", "7", "8", "9">>[k + 1]

RECURSIVE ToText(_)
\* Python: str(n) for a non-negative int
ToText(n) == IF n < 10 THEN <<Digit(n)>> ELSE ToText(n \div 10) \o <<Digit(n % 10)>>

\* Python: f"{v}" for a str or an int
Format(v) == IF v.kind = "str" THEN v.s ELSE ToText(v.n)

\* Python: v == "text" / v != "text" where v is any JSON value
PyEq(v, text) == v.kind = "str" /\ v.s = text

tSingleTrees == <<"s", "i", "n", "g", "l", "e", "_", "t", "r", "e", "e", "s">>
tGeojson == <<".", "g", "e", "o", "j", "s", "o", "n">>
tLaz == <<".", "l", "a", "z">>
tALS == <<"A", "L", "S">>
tULS == <<"U", "L", "S">>
tTLS == <<"T", "L", "S">>
tFI == <<"F", "I">>
tNA == <<"N", "A">>
tDash == <<"-">>
tEmpty == <<>>

TYPES == <<tALS, tULS, tTLS>>

METRICS == <<"DBH_cm", "crown_base_height_m", "height_m", "mean_crown_diameter_m">>

-----------------------------------------------------------------------------
(* json.loads on the tool's diagnostic channel.  The channel's text is a    *)
(* sequence of JSON tokens: punctuation, object keys, string and number     *)
(* values.  Only flat objects and scalars occur.                            *)

Punct(c) == [kind |-> "punct", c |-> c]
Key(k) == [kind |-> "key", k |-> k]

IsValueToken(t) == t.kind \in {"str", "num"}

EmptyObject == [k \in {} |-> Num(0)]

\* obj[key] = v; a repeated key keeps the last value, as json.loads does
Put(obj, key, v) == [k \in (DOMAIN obj) \cup {key} |-> IF k = key THEN v ELSE obj[k]]

JsonError == [ok |-> FALSE, isObject |-> FALSE, obj |-> EmptyObject]

RECURSIVE ParseMembers(_, _, _)
\* members of an object, toks[i] being where the next key is expected
ParseMembers(toks, i, acc) ==
    IF /\ i + 3 <= Len(toks)
       /\ toks[i].kind = "key"
       /\ toks[i + 1] = Punct(":")
       /\ IsValueToken(toks[i + 2])
    THEN LET acc2 == Put(acc, toks[i].k, toks[i + 2])
         IN  IF i + 3 = Len(toks) /\ toks[i + 3] = Punct("}")
             THEN [ok |-> TRUE, isObject |-> TRUE, obj |-> acc2]
             ELSE IF toks[i + 3] = Punct(",")
                  THEN ParseMembers(toks, i + 4, acc2)
                  ELSE JsonError
    ELSE JsonError

\* Python: json.loads(res); ok = FALSE stands for json.JSONDecodeError
JsonLoads(toks) ==
    IF Len(toks) = 0 THEN JsonError
    ELSE IF Len(toks) = 1 /\ IsValueToken(toks[1])
         THEN [ok |-> TRUE, isObject |-> FALSE, obj |-> EmptyObject]
    ELSE IF toks[1] # Punct("{") THEN JsonError
    ELSE IF Len(toks) = 2 /\ toks[2] = Punct("}")
         THEN [ok |-> TRUE, isObject |-> TRUE, obj |-> EmptyObject]
    ELSE ParseMembers(toks, 2, EmptyObject)

\* Python: res[key] evaluates without raising
CanSubscript(res, key) == res.isObject /\ key \in DOMAIN res.obj

\* The exception res[key] raises when it cannot be evaluated
SubscriptError(res) == IF res.isObject THEN "KeyError" ELSE "TypeError"

-----------------------------------------------------------------------------
(* Ground truth: lines 24-55 *)

\* Index of the first file named *.geojson, 0 when there is none (lines 25-32)
RECURSIVE GeojsonFrom(_, _)
GeojsonFrom(files, i) ==
    IF i > Len(files) THEN 0
    ELSE IF EndsWith(files[i].name, tGeojson) THEN i
    ELSE GeojsonFrom(files, i + 1)

GeojsonIndex(files) == GeojsonFrom(files, 1)

\* open(path).read(); json.loads(data); data["properties"]["measurements"]
DocLoads(content) ==
    /\ content.parses
    /\ "properties" \in DOMAIN content
    /\ "measurements" \in DOMAIN content.properties

\* mutant: the comparison with "FI" (lines 40-41) is left out
NotFI_SourceOnly(entry) == "source" \notin DOMAIN entry

\* lines 38-41: the entry is passed over
NotFI(entry) ==
    \/ "source" \notin DOMAIN entry
    \/ ~PyEq(entry.source, tFI)

\* mutant: the break of line 53 is left out, so the last "FI" entry wins
FIFrom_Last(data, i) ==
    IF \A j \in i..Len(data) : NotFI(data[j]) THEN 0
    ELSE CHOOSE j \in i..Len(data) :
             ~NotFI(data[j]) /\ \A m \in (j + 1)..Len(data) : NotFI(data[m])

\* Index of the first entry the loop of line 37 does not pass over, 0 if none
RECURSIVE FIFrom(_, _)
FIFrom(data, i) ==
    IF i > Len(data) THEN 0
    ELSE IF NotFI(data[i]) THEN FIFrom(data, i + 1)
    ELSE i

FIIndex(data) == FIFrom(data, 1)

\* lines 42-50 evaluate without raising: the four keys exist (else KeyError)
\* and the crown base height supports `in` (else TypeError)
EntryLoads(entry) ==
    /\ \A i \in 1..Len(METRICS) : METRICS[i] \in DOMAIN entry
    /\ entry.crown_base_height_m.kind = "str"

EntryError(entry) ==
    IF \A i \in 1..Len(METRICS) : METRICS[i] \in DOMAIN entry
    THEN "TypeError" ELSE "KeyError"

\* lines 42-52: the four target_* variables after the FI entry is read
LoadTargets(entry) ==
    [trunk_diameter |-> entry.DBH_cm,
     crown_height |-> IF Contains(tDash, entry.crown_base_height_m.s)
                      THEN Str(tEmpty) ELSE entry.crown_base_height_m,
     height |-> IF PyEq(entry.height_m, tNA) THEN Str(tEmpty) ELSE entry.height_m,
     crown_diameter |-> IF PyEq(entry.mean_crown_diameter_m, tNA)
                        THEN Str(tEmpty) ELSE entry.mean_crown_diameter_m]

\* target_* by position in METRICS
TargetOf(t, i) ==
    CASE i = 1 -> t.trunk_diameter
      [] i = 2 -> t.crown_height
      [] i = 3 -> t.height
      [] OTHER -> t.crown_diameter

\* raw value of an entry by position in METRICS
RawOf(entry, i) == entry[METRICS[i]]

-----------------------------------------------------------------------------
(* Capture selection, reconciliation and the row: lines 56-98 *)

\* mutant: the tag filter of lines 59-60 is left out
IsCapture_AnyLaz(name) == EndsWith(name, tLaz)

\* lines 57-60: the file is a capture the tool is run on
IsCapture(name) ==
    /\ EndsWith(name, tLaz)
    /\ ~(\A k \in 1..Len(TYPES) : ~Contains(TYPES[k], name))

\* line 61: directory + "/" + file
PathOf(dir, name) == dir \o <<"/">> \o name

\* lines 68-83: the target is compared with ""
Present(v) == ~PyEq(v, tEmpty)

\* lines 68-83 evaluate without raising
CanReconcile(t, res) ==
    \A i \in 1..Len(METRICS) : Present(TargetOf(t, i)) => CanSubscript(res, METRICS[i])

\* mutant: the estimate is not masked by the target
ResOf_Unmasked(t, res, i) ==
    IF CanSubscript(res, METRICS[i]) THEN res.obj[METRICS[i]] ELSE Str(tEmpty)

\* lines 68-83: res_* by position in METRICS
ResOf(t, res, i) ==
    IF Present(TargetOf(t, i)) THEN res.obj[METRICS[i]] ELSE Str(tEmpty)

\* lines 85-93
Before(name) ==
    IF Contains(tALS, name) THEN <<>>
    ELSE IF Contains(tULS, name) THEN <<TAB>>
    ELSE <<TAB, TAB>>

\* mutant: the ULS branch sets no trailing pad
After_ULSNone(name) == IF Contains(tALS, name) THEN <<TAB, TAB>> ELSE <<>>

After(name) ==
    IF Contains(tALS, name) THEN <<TAB, TAB>>
    ELSE IF Contains(tULS, name) THEN <<TAB>>
    ELSE <<>>

\* one out.write of lines 95-98
Group(t, res, name, i) ==
    Format(TargetOf(t, i)) \o <<TAB>> \o Before(name)
        \o Format(ResOf(t, res, i)) \o After(name)
        \o (IF i = Len(METRICS) THEN <<NL>> ELSE <<TAB>>)

\* lines 95-98: the text the four out.write calls append
RowText(t, res, name) ==
    Group(t, res, name, 1) \o Group(t, res, name, 2)
        \o Group(t, res, name, 3) \o Group(t, res, name, 4)

-----------------------------------------------------------------------------
(* Inputs: what os.walk(SOURCE) yields and what the tool answers *)

NoContent == [parses |-> FALSE]

Doc(measurements) == [parses |-> TRUE, properties |-> [measurements |-> measurements]]

File(name, content) == [name |-> name, content |-> content]

Entry(src, dbh, cbh, h, cd) ==
    [source |-> src, DBH_cm |-> dbh, crown_base_height_m |-> cbh,
     height_m |-> h, mean_crown_diameter_m |-> cd]

nGt == <<"g", "t">> \o tGeojson
nALS == tALS \o tLaz
nULS == tULS \o tLaz
nTLS == tTLS \o tLaz
nTLSALS == tTLS \o <<"_">> \o tALS \o tLaz
nULSTLS == <<"x">> \o tULS \o <<"_">> \o tTLS \o tLaz
nTree == <<"t", "r", "e", "e">> \o tLaz
nALStxt == tALS \o <<".", "t", "x", "t">>

InDir(c) == tSingleTrees \o <<"/", c>>

sFI == Str(tFI)
s30 == Str(<<"3", "0">>)
s18 == Str(<<"1", "8">>)
s5 == Str(<<"5">>)
s6 == Str(<<"6">>)
s1 == Str(<<"1">>)
sNA == Str(tNA)
sRange == Str(<<"2", "-", "3">>)

EntryGood == Entry(sFI, s30, s6, s18, s5)
EntryExample == Entry(sFI, s30, sNA, s18, s5)
EntryOther == Entry(sFI, s1, s1, s1, s1)

DirPool ==
    << [directory |-> InDir("a"),
        files |-> <<File(nGt, Doc(<<EntryExample>>)), File(nALS, NoContent),
                    File(nULS, NoContent)>>],
       [directory |-> InDir("b"),
        files |-> <<File(nALS, NoContent)>>],
       [directory |-> InDir("c"),
        files |-> <<File(nGt, Doc(<<[DBH_cm |-> s30, crown_base_height_m |-> s6,
                                     height_m |-> s18, mean_crown_diameter_m |-> s5],
                                    Entry(Str(tTLS), s30, s6, s18, s5),
                                    Entry(Num(1), s30, s6, s18, s5)>>)),
                    File(nULS, NoContent)>>],
       [directory |-> <<"p", "l", "o", "t", "s", "/", "d">>,
        files |-> <<File(nGt, Doc(<<EntryGood>>)), File(nALS, NoContent)>>],
       [directory |-> InDir("e"),
        files |-> <<File(nTLSALS, NoContent), File(nTree, NoContent),
                    File(nALStxt, NoContent),
                    File(nGt, Doc(<<[height_m |-> s18],
                                    Entry(Str(tALS), s1, s1, s1, s1),
                                    Entry(sFI, sNA, sRange, sNA, sNA),
                                    EntryOther>>)),
                    File(nULSTLS, NoContent)>>],
       [directory |-> InDir("f"),
        files |-> <<File(<<"a">> \o tGeojson,
                         Doc(<<Entry(sFI, Num(30), s6, Num(18), Num(5))>>)),
                    File(<<"b">> \o tGeojson, Doc(<<EntryOther>>)),
                    File(nTLS, NoContent)>>],
       [directory |-> InDir("g"),
        files |-> <<File(nGt, NoContent), File(nALS, NoContent)>>],
       [directory |-> InDir("h"),
        files |-> <<File(nGt, Doc(<<Entry(sFI, s30, Num(6), s18, s5)>>)),
                    File(nALS, NoContent)>>],
       [directory |-> InDir("i"),
        files |-> <<File(nGt, Doc(<<[source |-> sFI, DBH_cm |-> s30,
                                     crown_base_height_m |-> s6,
                                     mean_crown_diameter_m |-> s5]>>)),
                    File(nALS, NoContent)>>],
       [directory |-> InDir("j"),
        files |-> <<File(nGt, [parses |-> TRUE]), File(nTLS, NoContent)>>],
       [directory |-> InDir("k"),
        files |-> <<File(nGt, Doc(<<Entry(sFI, Str(tEmpty), Str(tDash), sNA, sNA)>>)),
                    File(nULS, NoContent)>> ] >>

\* The directory listings of a run: up to MaxDirs different directories
Walks ==
    UNION { { w \in [1..n -> 1..Len(DirPool)] :
                \A i, j \in 1..n : i # j => w[i] # w[j] } : n \in 0..MaxDirs }

Member(k, v) == <<Key(k), Punct(":"), v>>

ToolResults ==
    { [stderr |-> <<>>, stdout |-> <<"n", "o", " ", "t", "r", "e", "e">>],
      [stderr |-> <<Punct("{")>> \o Member("height_m", Num(17)) \o <<Punct(",")>>
                    \o Member("DBH_cm", Num(28)) \o <<Punct(",")>>
                    \o Member("mean_crown_diameter_m", Str(<<"4">>)) \o <<Punct(",")>>
                    \o Member("crown_base_height_m", Num(103)) \o <<Punct("}")>>,
       stdout |-> <<"o", "k">>],
      [stderr |-> <<Punct("{"), Key("DBH_cm")>>, stdout |-> <<"o", "k">>],
      [stderr |-> <<Punct("{")>> \o Member("DBH_cm", Num(9)) \o <<Punct("}")>>,
       stdout |-> <<"o", "k">>],
      [stderr |-> <<Num(3)>>, stdout |-> <<"o", "k">>] }

-----------------------------------------------------------------------------
(* The run *)

Unbound == [kind |-> "unbound"]

NoResult == [stderr |-> <<>>, stdout |-> <<>>]

Init ==
    /\ walk \in { [i \in DOMAIN w |-> DirPool[w[i]]] : w \in Walks }
    /\ pc = "walk"
    /\ d = 1
    /\ f = 1
    /\ target = [trunk_diameter |-> Unbound, crown_height |-> Unbound,
                 height |-> Unbound, crown_diameter |-> Unbound]
    /\ p = NoResult
    /\ out = <<>>
    /\ counter = 0
    /\ printed = <<>>
    /\ calls = <<>>
    /\ written = <<>>
    /\ error = "none"

Dir == walk[d]
Files == walk[d].files
Data == Files[GeojsonIndex(Files)].content.properties.measurements
FIEntry == Data[FIIndex(Data)]

InWalk == pc = "walk" /\ d <= Len(walk)

\* an uncaught exception ends the script
Raise(e) ==
    /\ pc' = "aborted"
    /\ error' = e
    /\ UNCHANGED <<walk, d, f, target, p, out, counter, printed, calls, written>>

NextDirectory ==
    /\ d' = d + 1
    /\ UNCHANGED <<walk, pc, f, target, p, out, counter, printed, calls, written, error>>

\* lines 22-23
NotSingleTrees ==
    /\ InWalk
    /\ ~Contains(tSingleTrees, Dir.directory)
    /\ NextDirectory

\* lines 24-34
NoGeojson ==
    /\ InWalk
    /\ Contains(tSingleTrees, Dir.directory)
    /\ GeojsonIndex(Files) = 0
    /\ NextDirectory

\* lines 29-30, 35: the record cannot be read
GeojsonFails ==
    /\ InWalk
    /\ Contains(tSingleTrees, Dir.directory)
    /\ GeojsonIndex(Files) # 0
    /\ ~DocLoads(Files[GeojsonIndex(Files)].content)
    /\ Raise(IF Files[GeojsonIndex(Files)].content.parses
             THEN "KeyError" ELSE "JSONDecodeError")

HasData ==
    /\ InWalk
    /\ Contains(tSingleTrees, Dir.directory)
    /\ GeojsonIndex(Files) # 0
    /\ DocLoads(Files[GeojsonIndex(Files)].content)

\* lines 36-55: no entry is selected
NoFI ==
    /\ HasData
    /\ FIIndex(Data) = 0
    /\ NextDirectory

\* lines 42-50 raise
EntryFails ==
    /\ HasData
    /\ FIIndex(Data) # 0
    /\ ~EntryLoads(FIEntry)
    /\ Raise(EntryError(FIEntry))

\* lines 21-55 reach the capture loop
LoadGroundTruth ==
    /\ HasData
    /\ FIIndex(Data) # 0
    /\ EntryLoads(FIEntry)
    /\ target' = LoadTargets(FIEntry)
    /\ pc' = "captures"
    /\ f' = 1
    /\ UNCHANGED <<walk, d, p, out, counter, printed, calls, written, error>>

InCaptures == pc = "captures" /\ f <= Len(Files)

\* lines 57-60
SkipFile ==
    /\ InCaptures
    /\ ~IsCapture(Files[f].name)
    /\ f' = f + 1
    /\ UNCHANGED <<walk, pc, d, target, p, out, counter, printed, calls, written, error>>

\* lines 61-63: subprocess.run returns with the tool's two channels
Invoke ==
    /\ InCaptures
    /\ IsCapture(Files[f].name)
    /\ \E r \in ToolResults : p' = r
    /\ calls' = Append(calls, [d |-> d, f |-> f,
                               path |-> PathOf(Dir.directory, Files[f].name)])
    /\ pc' = "invoked"
    /\ UNCHANGED <<walk, d, f, target, out, counter, printed, written, error>>

\* mutant: the continue of line 66 is left out, json.loads("") raises
EmptyResult_Falls ==
    /\ pc = "invoked"
    /\ p.stderr = <<>>
    /\ printed' = Append(printed, [kind |-> "stdout", text |-> p.stdout])
    /\ pc' = "aborted"
    /\ error' = "JSONDecodeError"
    /\ UNCHANGED <<walk, d, f, target, p, out, counter, calls, written>>

\* mutant: the counter is incremented before the check of line 64
EmptyResult_Counts ==
    /\ pc = "invoked"
    /\ p.stderr = <<>>
    /\ printed' = Append(printed, [kind |-> "stdout", text |-> p.stdout])
    /\ counter' = counter + 1
    /\ f' = f + 1
    /\ pc' = "captures"
    /\ UNCHANGED <<walk, d, target, p, out, calls, written, error>>

\* lines 64-66
EmptyResult ==
    /\ pc = "invoked"
    /\ p.stderr = <<>>
    /\ printed' = Append(printed, [kind |-> "stdout", text |-> p.stdout])
    /\ f' = f + 1
    /\ pc' = "captures"
    /\ UNCHANGED <<walk, d, target, p, out, counter, calls, written, error>>

\* mutant: a result that cannot be used is skipped instead of raising
ResultFails_Skips ==
    /\ pc = "invoked"
    /\ p.stderr # <<>>
    /\ LET res == JsonLoads(p.stderr)
       IN  ~(res.ok /\ CanReconcile(target, res))
    /\ f' = f + 1
    /\ pc' = "captures"
    /\ UNCHANGED <<walk, d, target, p, out, counter, printed, calls, written, error>>

\* line 67 or lines 68-83 raise
ResultFails ==
    /\ pc = "invoked"
    /\ p.stderr # <<>>
    /\ LET res == JsonLoads(p.stderr)
       IN  /\ ~(res.ok /\ CanReconcile(target, res))
           /\ Raise(IF res.ok THEN SubscriptError(res) ELSE "JSONDecodeError")

\* mutant: the report is reopened with mode "w" for every row
WriteRow_Truncates ==
    /\ pc = "invoked"
    /\ p.stderr # <<>>
    /\ LET res == JsonLoads(p.stderr)
       IN  /\ res.ok
           /\ CanReconcile(target, res)
           /\ out' = RowText(target, res, Files[f].name)
           /\ written' = Append(written, [d |-> d, f |-> f, target |-> target,
                                          res |-> res])
    /\ counter' = counter + 1
    /\ printed' = Append(printed, [kind |-> "progress", counter |-> counter',
                                   path |-> PathOf(Dir.directory, Files[f].name)])
    /\ f' = f + 1
    /\ pc' = "captures"
    /\ UNCHANGED <<walk, d, target, p, calls, error>>

\* lines 67-100
WriteRow ==
    /\ pc = "invoked"
    /\ p.stderr # <<>>
    /\ LET res == JsonLoads(p.stderr)
       IN  /\ res.ok
           /\ CanReconcile(target, res)
           /\ out' = out \o RowText(target, res, Files[f].name)
           /\ written' = Append(written, [d |-> d, f |-> f, target |-> target,
                                          res |-> res])
    /\ counter' = counter + 1
    /\ printed' = Append(printed, [kind |-> "progress", counter |-> counter',
                                   path |-> PathOf(Dir.directory, Files[f].name)])
    /\ f' = f + 1
    /\ pc' = "captures"
    /\ UNCHANGED <<walk, d, target, p, calls, error>>

\* the loop of line 56 is exhausted
EndCaptures ==
    /\ pc = "captures"
    /\ f > Len(Files)
    /\ pc' = "walk"
    /\ d' = d + 1
    /\ UNCHANGED <<walk, f, target, p, out, counter, printed, calls, written, error>>

\* the loop of line 21 is exhausted
Finish ==
    /\ pc = "walk"
    /\ d > Len(walk)
    /\ pc' = "done"
    /\ UNCHANGED <<walk, d, f, target, p, out, counter, printed, calls, written, error>>

Next ==
    \/ NotSingleTrees
    \/ NoGeojson
    \/ GeojsonFails
    \/ NoFI
    \/ EntryFails
    \/ LoadGroundTruth
    \/ SkipFile
    \/ Invoke
    \/ EmptyResult
    \/ ResultFails
    \/ WriteRow
    \/ EndCaptures
    \/ Finish

Spec == Init /\ [][Next]_vars

-----------------------------------------------------------------------------
(* Reading the report back: test.tsv as lines of tab-separated fields *)

RECURSIVE SplitFrom(_, _, _, _)
\* the fields of text from position start on, position i being scanned
SplitFrom(text, sep, start, i) ==
    IF i > Len(text) THEN <<SubSeq(text, start, Len(text))>>
    ELSE IF text[i] = sep
         THEN <<SubSeq(text, start, i - 1)>> \o SplitFrom(text, sep, i + 1, i + 1)
         ELSE SplitFrom(text, sep, start, i + 1)

\* Python: text.split(sep) for a one-character sep
Split(text, sep) == SplitFrom(text, sep, 1, 1)

\* the newline-terminated lines of a text
Lines(text) ==
    LET pieces == Split(text, NL) IN SubSeq(pieces, 1, Len(pieces) - 1)

\* what follows the last newline: a row that is not finished
Unfinished(text) ==
    LET pieces == Split(text, NL) IN pieces[Len(pieces)]

\* the plot directory, the capture and the ground truth a written row came from
RowDir(k) == walk[written[k].d]
RowName(k) == RowDir(k).files[written[k].f].name

HasGeojson(dir) == \E i \in 1..Len(dir.files) : EndsWith(dir.files[i].name, tGeojson)

RecordOf(dir) ==
    dir.files[CHOOSE i \in 1..Len(dir.files) :
                  /\ EndsWith(dir.files[i].name, tGeojson)
                  /\ \A j \in 1..(i - 1) : ~EndsWith(dir.files[j].name, tGeojson)].content

IsFIEntry(e) == "source" \in DOMAIN e /\ e.source = Str(tFI)

HasFIEntry(dir) ==
    /\ HasGeojson(dir)
    /\ DocLoads(RecordOf(dir))
    /\ \E i \in 1..Len(RecordOf(dir).properties.measurements) :
           IsFIEntry(RecordOf(dir).properties.measurements[i])

FirstFIEntry(dir) ==
    LET ms == RecordOf(dir).properties.measurements
    IN  ms[CHOOSE i \in 1..Len(ms) :
               IsFIEntry(ms[i]) /\ \A j \in 1..(i - 1) : ~IsFIEntry(ms[j])]

HasALS(name) == Contains(tALS, name)
HasULS(name) == Contains(tULS, name)
HasTLS(name) == Contains(tTLS, name)

\* position of a group's estimate after its target: 1 for ALS, 2 for ULS, 3 for TLS
Band(name) == IF HasALS(name) THEN 1 ELSE IF HasULS(name) THEN 2 ELSE 3

TargetIdx(i) == 4 * (i - 1) + 1
EstimateIdx(name, i) == 4 * (i - 1) + 1 + Band(name)

\* the report read back: one sequence of fields per line
Table == LET rows == Lines(out) IN [k \in 1..Len(rows) |-> Split(rows[k], TAB)]

WellFormed(table) ==
    /\ Len(table) = Len(written)
    /\ \A k \in 1..Len(table) : Len(table[k]) = 16

IsPrefix(a, b) == Len(a) <= Len(b) /\ SubSeq(b, 1, Len(a)) = a

-----------------------------------------------------------------------------
(* Claims *)

\* C1: for each of the four metrics, a raw "NA" in the selected FI entry gives
\* an absent (empty) loaded target, and every row of that plot has an empty
\* estimate for the metric.
C1_NAIsAbsent ==
    /\ pc \in {"captures", "invoked"} =>
           \A i \in 1..4 :
               RawOf(FirstFIEntry(walk[d]), i) = Str(tNA)
                   => TargetOf(target, i) = Str(tEmpty)
    /\ LET table == Table
       IN  /\ WellFormed(table)
           /\ \A k \in 1..Len(written) :
                  LET entry == FirstFIEntry(RowDir(k))
                  IN  \A i \in 1..4 :
                          RawOf(entry, i) = Str(tNA)
                              => table[k][EstimateIdx(RowName(k), i)] = <<>>

\* C2: in every row, per metric in the order DBH, crown base height, height,
\* crown diameter: an absent loaded target gives empty target and estimate
\* texts; a present one gives the ground-truth value and the tool's value for
\* that same metric.
C2_RowReconciled ==
    LET table == Table
    IN  /\ WellFormed(table)
        /\ \A k \in 1..Len(written) :
               LET fs == table[k]
                   entry == FirstFIEntry(RowDir(k))
                   band == Band(RowName(k))
               IN  \A i \in 1..4 :
                       IF TargetOf(written[k].target, i) = Str(tEmpty)
                       THEN /\ fs[TargetIdx(i)] = <<>>
                            /\ fs[TargetIdx(i) + band] = <<>>
                       ELSE /\ fs[TargetIdx(i)] = Format(RawOf(entry, i))
                            /\ METRICS[i] \in DOMAIN written[k].res.obj
                            /\ fs[TargetIdx(i) + band]
                                   = Format(written[k].res.obj[METRICS[i]])

\* a row with a masked metric the tool did report, next to a reported one
C2_Witness ==
    LET table == Table
    IN  /\ WellFormed(table)
        /\ \E k \in 1..Len(written) : \E i, j \in 1..4 :
               /\ TargetOf(written[k].target, i) = Str(tEmpty)
               /\ METRICS[i] \in DOMAIN written[k].res.obj
               /\ TargetOf(written[k].target, j) # Str(tEmpty)
               /\ table[k][EstimateIdx(RowName(k), j)] # <<>>

\* C3: every row has 16 tab-separated fields, targets at 0, 4, 8, 12 and the
\* estimates at 4k+1 (ALS), 4k+2 (ULS), 4k+3 (TLS); the other fields are empty.
C3_Columns ==
    LET table == Table
    IN  /\ Len(table) = Len(written)
        /\ \A k \in 1..Len(written) :
               LET fs == table[k]
                   band == IF HasALS(RowName(k)) THEN 1
                           ELSE IF HasULS(RowName(k)) THEN 2 ELSE 3
               IN  /\ Len(fs) = 16
                   /\ \A g \in 0..3 :
                          /\ fs[4 * g + 1] = Format(TargetOf(written[k].target, g + 1))
                          /\ fs[4 * g + 1 + band]
                                 = Format(ResOf(written[k].target, written[k].res, g + 1))
                          /\ \A o \in 1..3 : o # band => fs[4 * g + 1 + o] = <<>>

\* rows of an ALS, a ULS and a TLS capture, each with an estimate in its band
C3_Witness ==
    LET table == Table
    IN  /\ WellFormed(table)
        /\ \A b \in 1..3 : \E k \in 1..Len(written) :
               /\ Band(RowName(k)) = b
               /\ table[k][1 + b] # <<>>

\* a directory the claim calls "without usable ground truth"
NoUsableGroundTruth(dir) ==
    \/ ~HasGeojson(dir)
    \/ /\ DocLoads(RecordOf(dir))
       /\ \A i \in 1..Len(RecordOf(dir).properties.measurements) :
              ~IsFIEntry(RecordOf(dir).properties.measurements[i])

HasLazFile(dir) == \E i \in 1..Len(dir.files) : EndsWith(dir.files[i].name, tLaz)

\* C4: a plot directory with no .geojson file, or whose record has no "FI"
\* entry, is skipped: one step moves on to the next directory, leaving the
\* report, the counter, the tool and the error state untouched; the tool is
\* never run on its captures and no row comes from it.
C4_SkipsPlot ==
    /\ [](/\ \A c \in 1..Len(calls) : ~NoUsableGroundTruth(walk[calls[c].d])
          /\ \A k \in 1..Len(written) : ~NoUsableGroundTruth(RowDir(k)))
    /\ [][(pc = "walk" /\ d <= Len(walk) /\ NoUsableGroundTruth(walk[d]))
            => /\ pc' = "walk"
               /\ d' = d + 1
               /\ UNCHANGED <<out, counter, calls, written, printed, error>>]_vars

\* a marked plot with captures but no usable ground truth was passed, and the
\* run went on to invoke the tool in the next directory
C4_Witness ==
    /\ d = 2
    /\ Contains(tSingleTrees, walk[1].directory)
    /\ HasLazFile(walk[1])
    /\ HasGeojson(walk[1])
    /\ NoUsableGroundTruth(walk[1])
    /\ Len(calls) = 1
    /\ calls[1].d = 2
    /\ counter = 0
    /\ error = "none"

\* C5: an empty diagnostic channel is a non-fatal skip: stdout is printed, no
\* row is written, counter and report are unchanged, the next capture of the
\* same plot is next.
C5_EmptyIsSkip ==
    [][(pc = "invoked" /\ p.stderr = <<>>)
         => /\ printed' = Append(printed, [kind |-> "stdout", text |-> p.stdout])
            /\ pc' = "captures"
            /\ d' = d
            /\ f' = f + 1
            /\ UNCHANGED <<out, counter, written, calls, error>>]_vars

\* a pairing was skipped after a row had been written, its stdout is the last
\* thing printed and another file of the plot is still to come
C5_Witness ==
    /\ pc = "captures"
    /\ counter > 0
    /\ Len(printed) > 1
    /\ printed[Len(printed)].kind = "stdout"
    /\ printed[Len(printed)].text # <<>>
    /\ p.stderr = <<>>
    /\ f <= Len(walk[d].files)
    /\ calls[Len(calls)].f = f - 1

\* C6: a non-empty diagnostic channel that does not parse aborts the run: no
\* row, no counter increment, nothing processed afterwards, earlier rows kept.
C6_MalformedAborts ==
    /\ [][(pc = "invoked" /\ p.stderr # <<>> /\ ~JsonLoads(p.stderr).ok)
            => /\ pc' = "aborted"
               /\ UNCHANGED <<out, counter, written, calls, printed, d, f>>]_vars
    /\ [][pc # "aborted"]_vars

\* the run stopped on unparsable output with rows already written and a
\* directory still unvisited
C6_Witness ==
    /\ pc = "aborted"
    /\ error = "JSONDecodeError"
    /\ p.stderr # <<>>
    /\ ~JsonLoads(p.stderr).ok
    /\ counter > 0
    /\ d < Len(walk)

Progress == SelectSeq(printed, LAMBDA e : e.kind = "progress")

\* C7: the counter equals the number of rows in the report: it starts at 0 and
\* grows by 1 exactly when a row is appended; every row is a complete line and
\* is matched by one progress line carrying its ordinal.
C7_CounterCountsRows ==
    /\ [](/\ counter = Len(Lines(out))
          /\ Unfinished(out) = <<>>
          /\ counter = Len(written)
          /\ Len(Progress) = counter
          /\ \A k \in 1..Len(Progress) : Progress[k].counter = k)
    /\ [][\/ counter' = counter /\ out' = out
          \/ /\ counter' = counter + 1
             /\ Len(Lines(out')) = Len(Lines(out)) + 1
             /\ pc = "invoked"]_vars

\* two rows with a skipped pairing in between
C7_Witness ==
    /\ counter = 2
    /\ Len(printed) = 3
    /\ printed[2].kind = "stdout"
    /\ Len(Lines(out)) = 2

Before2(a, b) == a.d < b.d \/ (a.d = b.d /\ a.f < b.f)

\* C8: the report only grows (its content is a prefix of its later content),
\* rows and invocations follow the traversal order, and an invocation starts
\* only when the previous pairing was handled (row written or skipped).
C8_AppendOnly ==
    /\ [](/\ \A k, l \in 1..Len(written) : k < l => Before2(written[k], written[l])
          /\ \A k, l \in 1..Len(calls) : k < l => Before2(calls[k], calls[l])
          /\ \A k \in 1..Len(Progress) :
                 Progress[k].path = PathOf(RowDir(k).directory, RowName(k))
          /\ pc = "invoked" => Len(calls) = Len(printed) + 1
          /\ pc \in {"walk", "captures", "done"} => Len(calls) = Len(printed)
          /\ Len(calls) - Len(printed) \in {0, 1})
    /\ [][IsPrefix(out, out')]_vars

\* rows from two directories with a skipped pairing between them
C8_Witness ==
    /\ Len(written) >= 2
    /\ written[1].d = 1
    /\ written[Len(written)].d = 2
    /\ \E k \in 1..Len(printed) : printed[k].kind = "stdout"
    /\ pc = "done"

\* C9: every row's targets come from the first "FI" entry of the ground-truth
\* record of the row's own directory (as read, or blanked).
C9_TargetsFromFirstFI ==
    LET table == Table
    IN  /\ WellFormed(table)
        /\ \A k \in 1..Len(written) :
               /\ HasFIEntry(RowDir(k))
               /\ \A i \in 1..4 :
                      /\ table[k][TargetIdx(i)]
                             \in {Format(RawOf(FirstFIEntry(RowDir(k)), i)), <<>>}
                      /\ TargetOf(written[k].target, i)
                             \in {RawOf(FirstFIEntry(RowDir(k)), i), Str(tEmpty)}

\* a row of the second directory, whose record has a later "FI" entry and
\* entries before the first one, after a row of the first directory
C9_Witness ==
    /\ Len(written) >= 2
    /\ written[1].d = 1
    /\ \E k \in 1..Len(written) :
           /\ written[k].d = 2
           /\ LET ms == RecordOf(RowDir(k)).properties.measurements
              IN  /\ ~IsFIEntry(ms[1])
                  /\ Cardinality({i \in 1..Len(ms) : IsFIEntry(ms[i])}) >= 2
           /\ Table[k][1] # <<>>

\* C10: the tool runs only on *.laz files naming ALS, ULS or TLS; a row with
\* an estimate in the TLS band is of a capture naming TLS and neither ALS nor
\* ULS; a name with several tags gets the band of ALS before ULS before TLS.
C10_CaptureSelection ==
    LET table == Table
    IN  /\ \A c \in 1..Len(calls) :
               LET name == walk[calls[c].d].files[calls[c].f].name
               IN  /\ EndsWith(name, tLaz)
                   /\ HasALS(name) \/ HasULS(name) \/ HasTLS(name)
        /\ WellFormed(table)
        /\ \A k \in 1..Len(written) :
               LET name == RowName(k)
                   fs == table[k]
               IN  /\ Before(name) = <<TAB, TAB>>
                          => HasTLS(name) /\ ~HasALS(name) /\ ~HasULS(name)
                   /\ \A g \in 0..3 :
                          /\ fs[4 * g + 4] # <<>>
                                 => HasTLS(name) /\ ~HasALS(name) /\ ~HasULS(name)
                          /\ HasALS(name)
                                 => fs[4 * g + 3] = <<>> /\ fs[4 * g + 4] = <<>>
                          /\ ~HasALS(name) /\ HasULS(name)
                                 => fs[4 * g + 2] = <<>> /\ fs[4 * g + 4] = <<>>

\* rows of a capture naming TLS and ALS (ALS band), of one naming ULS and TLS
\* (ULS band) and of one naming TLS only (TLS band)
C10_Witness ==
    LET table == Table
    IN  /\ WellFormed(table)
        /\ \E k \in 1..Len(written) :
               HasTLS(RowName(k)) /\ HasALS(RowName(k)) /\ table[k][2] # <<>>
        /\ \E k \in 1..Len(written) :
               HasTLS(RowName(k)) /\ HasULS(RowName(k)) /\ table[k][3] # <<>>
        /\ \E k \in 1..Len(written) :
               ~HasALS(RowName(k)) /\ ~HasULS(RowName(k)) /\ table[k][4] # <<>>

====
